---- MODULE Spec2Model ----
(***************************************************************************)
(* Model of the GAJA end-to-end test harness:                              *)
(*   - SimpleTestRunner (Gaja-full-test/simple_runner.py): run_scenario,   *)
(*     execute_scenario, execute_step, the conversation history map;       *)
(*   - AIEvaluator (Gaja-full-test/src/evaluation/ai_evaluator.py):        *)
(*     test_connection, evaluate_conversation, _evaluate_single_criteria,  *)
(*     _parse_evaluation_result, _analyze_conversation_flow;               *)
(*   - TestRunner (Gaja-full-test/src/runner.py): run_scenario,            *)
(*     execute_step, verify_assertions, with the effect grading of         *)
(*     GraderEvaluator (Gaja-full-test/src/evaluator.py).                  *)
(*                                                                         *)
(* Scores are Python floats in the code; here they are integers counted in *)
(* tenths of a point (8.5 -> 85, 10.0 -> 100).  Ratios (success_rate,      *)
(* success_percentage) are exact fractions [num, den] with den > 0.        *)
(***************************************************************************)
EXTENDS Integers, Sequences, FiniteSets, TLC

(***************************************************************************)
(* Bounds of the exploration.                                              *)
(***************************************************************************)
MaxSteps == 3        \* longest scenario of the runner harness
MaxDeviations == 1   \* criteria whose reply differs from the script's base reply
MaxRuns == 2         \* run_scenario calls of the "sequence" harness
MaxAssertions == 2   \* longest assertion list of a TestRunner step
MaxAttempts == 3     \* largest max_attempts simple_retry is called with

(***************************************************************************)
(* Program constants.                                                      *)
(***************************************************************************)
QualityGateThreshold == 75     \* AIEvaluator.quality_gate_threshold = 75.0
DefaultMaxScore == 100         \* 10.0 points, in tenths
AiFloorPercent == 75           \* ai_success_rate >= 0.75
LocalFloorPercent == 70        \* success_rate >= 0.7
BatchFloorPercent == 50        \* run_all_scenarios: success_rate >= 0.5
StopAfterAttempt == 3          \* @retry(stop=stop_after_attempt(3)) of _make_request

\* class EvaluationCriteria(Enum), in definition order
EvaluationCriteria ==
  << "accuracy", "relevance", "completeness", "tool_usage",
     "context_understanding", "proactivity", "conversation_flow",
     "error_handling", "memory_usage", "personalization" >>

NumCriteria == Len(EvaluationCriteria)

(***************************************************************************)
(* Exact fractions.                                                        *)
(***************************************************************************)
Frac(n, d) == [num |-> n, den |-> d]
FracZero == Frac(0, 1)
FracGE(a, b) == a.num * b.den >= b.num * a.den

(***************************************************************************)
(* JSON values as json.loads returns them: a number, a string, null or a   *)
(* list of strings.                                                        *)
(***************************************************************************)
JNum(n) == [t |-> "num", n |-> n]
JStr(s) == [t |-> "str", s |-> s]
JNull == [t |-> "null"]
JList(l) == [t |-> "list", l |-> l]

\* dict.get(key, default) on a decoded JSON object
Get(data, key, default) == IF key \in DOMAIN data THEN data[key] ELSE default

\* float(v) raises ValueError/TypeError unless v is a number
FloatRaises(v) == v.t # "num"

\* list.extend(v) raises TypeError when v is not iterable (None, a number);
\* the replies of the model carry a list or null there
ExtendRaises(v) == v.t \in {"null", "num"}
ExtendItems(v) == v.l

(***************************************************************************)
(* The grading backend (LM Studio).  A reply to one chat-completion        *)
(* request is a connection error or an HTTP response; the text of a 200    *)
(* response has a shape (what the brace search and json.loads make of it)  *)
(* and, when it decodes, the decoded object.                               *)
(*   shape "none"     no '{' ... '}' span in the text                      *)
(*   shape "garbage"  a span that json.loads rejects, also after the       *)
(*                    first-balanced-object retry                          *)
(*   shape "object"   the span first '{' .. last '}' decodes               *)
(*   shape "trailing" that span does not decode, its first balanced        *)
(*                    object does                                          *)
(***************************************************************************)
ConnectionError == [kind |-> "exception"]
HttpError(status) == [kind |-> "response", status |-> status]
HttpOk(shape, data) ==
  [kind |-> "response", status |-> 200, text |-> [shape |-> shape, data |-> data]]

RGood ==
  HttpOk("object", [score |-> JNum(100), max_score |-> JNum(100),
                    issues |-> JList(<< >>), suggestions |-> JList(<< >>),
                    severity |-> JStr("low")])
RThreshold ==
  HttpOk("object", [score |-> JNum(75), max_score |-> JNum(100),
                    issues |-> JList(<< "minor issue" >>),
                    suggestions |-> JList(<< "improve x" >>),
                    severity |-> JStr("medium")])
RCritical ==
  HttpOk("trailing", [score |-> JNum(5), max_score |-> JNum(100),
                      issues |-> JList(<< "fabricated fact" >>),
                      severity |-> JStr("critical")])
ROverMax ==
  HttpOk("object", [score |-> JNum(150), max_score |-> JNum(100),
                    issues |-> JList(<< >>), severity |-> JStr("low")])
RNegative ==
  HttpOk("object", [score |-> JNum(-10), max_score |-> JNum(100)])
RZeroMax ==
  HttpOk("object", [score |-> JNum(0), max_score |-> JNum(0)])
REmptyObject == HttpOk("object", << >>)
RNullIssues ==
  HttpOk("object", [score |-> JNum(90), issues |-> JNull])
RBadScore ==
  HttpOk("object", [score |-> JStr("high"), max_score |-> JNum(100)])
RNoJson == HttpOk("none", << >>)
RGarbage == HttpOk("garbage", << >>)
RHttp500 == HttpError(500)

\* replies whose grading call or parse fails
FailingReplies == {ConnectionError, RHttp500, RNoJson, RGarbage, RBadScore}

AllReplies ==
  {RGood, RThreshold, RCritical, ROverMax, RNegative, RZeroMax, REmptyObject,
   RNullIssues} \cup FailingReplies

(***************************************************************************)
(* EvaluationResult (dataclass); reasoning is free text and left out.      *)
(***************************************************************************)
EvaluationResult(criteria, score, max_score, issues, suggestions, severity) ==
  [criteria |-> criteria, score |-> score, max_score |-> max_score,
   issues |-> issues, suggestions |-> suggestions, severity |-> severity]

\* the except branch of _parse_evaluation_result
ParseFailureResult(criteria) ==
  EvaluationResult(criteria, 0, DefaultMaxScore,
                   JList(<< "Model nie odpowiedzial w poprawnym formacie" >>),
                   JList(<< "Sprawdz poprawnosc prompta i modelu" >>),
                   JStr("critical"))

\* the except branch of _evaluate_single_criteria
CallFailureResult(criteria) ==
  EvaluationResult(criteria, 0, DefaultMaxScore,
                   JList(<< "Nie udalo sie ocenic " \o criteria >>),
                   JList(<< "Sprawdz polaczenie z LM Studio" >>),
                   JStr("critical"))

\* AIEvaluator._parse_evaluation_result
ParseEvaluationResult(text, criteria) ==
  IF text.shape \in {"none", "garbage"}
  THEN ParseFailureResult(criteria)
  ELSE LET data == text.data
           score == Get(data, "score", JNum(0))
           max_score == Get(data, "max_score", JNum(DefaultMaxScore))
       IN IF FloatRaises(score) \/ FloatRaises(max_score)
          THEN ParseFailureResult(criteria)
          ELSE EvaluationResult(criteria, score.n, max_score.n,
                                Get(data, "issues", JList(<< >>)),
                                Get(data, "suggestions", JList(<< >>)),
                                Get(data, "severity", JStr("medium")))

\* AIEvaluator._evaluate_single_criteria, given the backend's reply
EvaluateSingleCriteria(reply, criteria) ==
  IF reply.kind = "exception" THEN CallFailureResult(criteria)
  ELSE IF reply.status = 200 THEN ParseEvaluationResult(reply.text, criteria)
  ELSE CallFailureResult(criteria)

\* variant: the ratio is not scaled to a percentage
SuccessPercentageUnscaled(total_score, max_possible_score) ==
  IF max_possible_score > 0
  THEN Frac(total_score, max_possible_score)
  ELSE FracZero

\* success_percentage, line 125
SuccessPercentage(total_score, max_possible_score) ==
  IF max_possible_score > 0
  THEN Frac(total_score * 100, max_possible_score)
  ELSE FracZero

\* variant: the gate looks at the percentage only
PassesQualityGateIgnoringCritical(success_percentage, critical_failures) ==
  FracGE(success_percentage, Frac(QualityGateThreshold, 1))

\* variant: the comparison with the threshold is reversed
PassesQualityGateReversed(success_percentage, critical_failures) ==
  /\ FracGE(Frac(QualityGateThreshold, 1), success_percentage)
  /\ Len(critical_failures) = 0

\* passes_quality_gate, line 126
PassesQualityGate(success_percentage, critical_failures) ==
  /\ FracGE(success_percentage, Frac(QualityGateThreshold, 1))
  /\ Len(critical_failures) = 0

RECURSIVE ExtendAll(_, _)
\* for result in criteria_results: all_xxx.extend(result.xxx), lines 121-123
ExtendAll(results, field) ==
  IF results = << >> THEN << >>
  ELSE ExtendAll(SubSeq(results, 1, Len(results) - 1), field)
         \o ExtendItems(results[Len(results)][field])

\* one of the extends of lines 122-123 raises TypeError
ExtendAllRaises(results) ==
  \E i \in 1..Len(results) :
     ExtendRaises(results[i].issues) \/ ExtendRaises(results[i].suggestions)

(***************************************************************************)
(* TestRunner (src/runner.py) and GraderEvaluator (src/evaluator.py).      *)
(* A text is a sequence of characters, None is JNull, a dict is JDict.     *)
(***************************************************************************)
JDict(d) == [t |-> "dict", d |-> d]

\* the truth value Python gives a value in "if value" / "if plugin_data"
Truthy(v) ==
  IF v.t = "null" THEN FALSE
  ELSE IF v.t = "str" THEN v.s # << >>
  ELSE IF v.t = "num" THEN v.n # 0
  ELSE DOMAIN v.d # {}

\* str.lower over the letters the texts of the model are written with
Lower(text) ==
  [i \in 1..Len(text) |->
     IF text[i] = "O" THEN "o" ELSE IF text[i] = "K" THEN "k" ELSE text[i]]

\* sub in text, for two str
Contains(sub, text) ==
  \E i \in 0..(Len(text) - Len(sub)) : SubSeq(text, i + 1, i + Len(sub)) = sub

\* what the assistant answers to a text step; "text": null decodes to None
AssistantTexts == {JStr(<< "O", "k" >>), JStr(<< "n", "o" >>), JNull}

\* the text of the ResponseBundle send_audio returns, api_client.py lines 163-166
AudioPlaceholder == JStr(<< "[", "A", "u", "d", "i", "o", "]" >>)

\* f"Action {action} executed", line 283
ActionText == JStr(<< "A", "c", "t", "i", "o", "n" >>)

\* what hooks.execute_action returns for restart_gaja, hooks.py lines 33-53
HookResults ==
  {[success |-> TRUE, action |-> "service_restarted"],
   [success |-> FALSE, error |-> "Health check failed"]}

\* the assertions the steps of the model are written with; the targets are
\* left at their default, "assistant_text"
AssertionPool ==
  {[kind |-> "contains", value |-> JStr(<< "o", "K" >>)],
   [kind |-> "contains"],
   [kind |-> "contains", value |-> JNum(42)],
   [kind |-> "semantic_ok"],
   [kind |-> "effect_ok"],
   [kind |-> "effect_ok", expected_effect |-> "service_restarted"],
   [kind |-> "jsonpath_eq", value |-> JStr(<< "O", "k" >>)],
   [kind |-> "regex", value |-> JStr(<< "O", "k" >>)]}

\* what grade_semantic_response returns for the step (a grade clamped to
\* 0..10, in tenths) and what config["report"]["fail_threshold"] gives:
\* a number, or JNull when the key is missing and the lookup raises
Gradings ==
  {[grade |-> g, threshold |-> JNum(80)] : g \in {0, 79, 80, 100}}
    \cup {[grade |-> 100, threshold |-> JNull]}

\* GraderEvaluator.grade_effect_verification for a non-empty result and an
\* expected effect other than habit_add and calendar_add, evaluator.py lines 155-186
GradeEffectVerification(expected_effect, actual_result) ==
  IF Get(actual_result, "success", FALSE)
  THEN IF /\ expected_effect = "service_restarted"
          /\ Get(actual_result, "action", "") = "service_restarted"
       THEN [grade |-> 100, comments |-> "Service successfully restarted"]
       ELSE [grade |-> 70, comments |-> "Effect occurred but unclear if matches expected"]
  ELSE [grade |-> 20, comments |-> "Effect failed"]

\* TestRunner._get_assertion_target for the targets read from output_data
GetAssertionTarget(target, output_data) ==
  IF target = "assistant_text" THEN Get(output_data, "text", JStr(<< >>))
  ELSE IF target = "assistant_audio_path"
  THEN Get(output_data, "audio_path", JStr(<< >>))
  ELSE JStr(<< >>)

AssertionResult(kind, passed, detail) ==
  [kind |-> kind, passed |-> passed, detail |-> detail]

\* lines 358 and 364 raise: value.lower() on a non-str, target_text.lower()
\* or target_text[:100] on None
ContainsRaises(value, target_text) ==
  \/ target_text.t # "str"
  \/ Truthy(value) /\ value.t # "str"

\* the body of the loop of verify_assertions for one assertion, lines 350-434
CheckAssertion(assertion, input_data, output_data, plugin_data, grading) ==
  LET kind == assertion.kind
      target == Get(assertion, "target", "assistant_text")
      value == Get(assertion, "value", JNull)
  IN IF kind = "contains"
     THEN LET target_text == GetAssertionTarget(target, output_data)
          IN IF ContainsRaises(value, target_text)
             THEN AssertionResult(kind, FALSE, << "Assertion error: ", "AttributeError" >>)
             ELSE AssertionResult(kind,
                    Truthy(value) /\ Contains(Lower(value.s), Lower(target_text.s)),
                    << "Looking for value in ", target >>)
     ELSE IF kind = "semantic_ok"
     THEN IF grading.threshold.t # "num"
          THEN AssertionResult(kind, FALSE, << "Evaluation error: ", "KeyError" >>)
          ELSE AssertionResult(kind, grading.grade >= grading.threshold.n,
                               << "comments" >>)
     ELSE IF kind = "effect_ok"
     THEN IF Truthy(plugin_data)
          THEN LET graded == GradeEffectVerification(
                               Get(assertion, "expected_effect", "unknown"),
                               plugin_data.d)
               IN AssertionResult(kind, graded.grade >= 80, << graded.comments >>)
          ELSE AssertionResult(kind, FALSE, << "No plugin data to verify effect" >>)
     ELSE IF kind = "jsonpath_eq"
     THEN AssertionResult(kind, FALSE, << "JSONPath assertions not implemented yet" >>)
     ELSE AssertionResult(kind, FALSE, << "Unknown assertion kind: ", kind >>)

\* variant: the first assertion whose check raises ends the verification
VerifyAssertionsAborting(assertions, input_data, output_data, plugin_data, grading) ==
  LET checked == [i \in 1..Len(assertions) |->
                    CheckAssertion(assertions[i], input_data, output_data,
                                   plugin_data, grading)]
      raised == {i \in 1..Len(assertions) : checked[i].detail[1] = "Assertion error: "}
  IN IF raised = {} THEN checked
     ELSE SubSeq(checked, 1, (CHOOSE i \in raised : \A j \in raised : i <= j) - 1)

\* TestRunner.verify_assertions, lines 339-436
VerifyAssertions(assertions, input_data, output_data, plugin_data, grading) ==
  [i \in 1..Len(assertions) |->
     CheckAssertion(assertions[i], input_data, output_data, plugin_data, grading)]

\* the requests verify_assertions sends to the grading backend
SemanticCalls(assertions) ==
  Cardinality({i \in 1..Len(assertions) : assertions[i].kind = "semantic_ok"})

\* variant: one passed assertion is enough
AnyPassed(assertions_results) ==
  \E i \in 1..Len(assertions_results) : assertions_results[i].passed

\* all(a["passed"] for a in assertions_results), line 317
AllPassed(assertions_results) ==
  \A i \in 1..Len(assertions_results) : assertions_results[i].passed

TestStep(type, assertions) ==
  [type |-> type, expect |-> [assertions |-> assertions]]

TestStepTypes == {"text", "audio", "action", "wait"}

Execution(raised, input_data, output_data, plugin_data) ==
  [raised |-> raised, input_data |-> input_data, output_data |-> output_data,
   plugin_data |-> plugin_data]

\* the branches of execute_step, lines 244-290: what the step's execution
\* leaves in input_data, output_data and plugin_data, and whether it raised
ExecuteOutcomes(step_type) ==
  IF step_type = "text"
  THEN {Execution(TRUE, [type |-> "text"], << >>, JNull)}
         \cup {Execution(FALSE, [type |-> "text"], [text |-> t], JNull) :
                 t \in AssistantTexts}
  ELSE IF step_type = "audio"
  THEN {Execution(TRUE, [type |-> "audio"], << >>, JNull),
        Execution(FALSE, [type |-> "audio"],
                  [text |-> AudioPlaceholder,
                   audio_path |-> JStr(<< "w", "a", "v" >>)], JNull)}
  ELSE IF step_type = "action"
  THEN {Execution(FALSE, [type |-> "action"],
                  [text |-> ActionText, action_result |-> h], JDict(h)) :
          h \in HookResults}
  ELSE {Execution(TRUE, << >>, << >>, JNull)}

\* the dict execute_step returns, lines 292-337; logged is false when
\* log_step_execution or the lookup of line 312 raises
TestStepResult(step, execution, grading, logged) ==
  IF execution.raised \/ ~logged
  THEN [success |-> FALSE, error |-> TRUE, input |-> execution.input_data,
        output |-> execution.output_data]
  ELSE LET assertions_results ==
             VerifyAssertions(step.expect.assertions, execution.input_data,
                              execution.output_data, execution.plugin_data,
                              grading)
       IN [success |-> AllPassed(assertions_results),
           input |-> execution.input_data, output |-> execution.output_data,
           assertions |-> assertions_results]

(***************************************************************************)
(* Scenarios and the harness configurations the exploration runs:          *)
(*   "runner"     every scenario of up to MaxSteps steps, against a        *)
(*                backend that gives every criterion the same reply;       *)
(*   "grader"     a one-step scenario, against a backend whose replies     *)
(*                differ from a base reply for up to MaxDeviations         *)
(*                criteria;                                                *)
(*   "sequence"   up to MaxRuns run_scenario calls in a row on one runner, *)
(*                over one-step scenarios named "A" or "B";                *)
(*   "testrunner" one TestRunner.run_scenario call;                        *)
(*   "authenticate" TestRunner.run: authenticate_api, then a scenario      *)
(*                without assertions;                                      *)
(*   "batch"      one run_all_scenarios call over up to MaxRuns scenario   *)
(*                files; the assistant may answer 200 with a body that is  *)
(*                not a JSON object;                                       *)
(*   "retry"      one call of a function wrapped by simple_retry;          *)
(*   "concurrent" two execute_scenario coroutines with different names on  *)
(*                one runner (specification SpecConcurrent only).          *)
(***************************************************************************)
StepTypes == {"text", "audio", "tts", "restart_gaja", "wait", "unknown"}

SeqsUpTo(S, n) == UNION {[1..k -> S] : k \in 0..n}

Scenario(name, steps) == [name |-> name, steps |-> steps]

UniformScripts(replies) == {[c \in 1..NumCriteria |-> r] : r \in replies}

RECURSIVE Deviate(_, _)
Deviate(scripts, d) ==
  IF d = 0 THEN scripts
  ELSE LET prev == Deviate(scripts, d - 1)
       IN prev \cup {[f EXCEPT ![c] = r] : f \in prev, c \in 1..NumCriteria, r \in AllReplies}

BaseReplies == {RGood, RThreshold, RZeroMax, RNullIssues}

HarnessNames ==
  {"runner", "grader", "sequence", "testrunner", "authenticate", "batch", "retry"}

ShortScenarios ==
  {Scenario(n, s) : n \in {"A", "B"}, s \in {<< "text" >>, << "wait" >>}}

\* what TestRunner.run_scenario is called with: one step with any list of
\* assertions, or up to MaxSteps steps without assertions
PlainTestScenarios ==
  {[k \in DOMAIN ts |-> TestStep(ts[k], << >>)] :
     ts \in SeqsUpTo({"text", "wait"}, MaxSteps)}

TestScenarios ==
  {<< TestStep(t, a) >> : t \in TestStepTypes,
                         a \in SeqsUpTo(AssertionPool, MaxAssertions)}
    \cup PlainTestScenarios

\* the scenarios load_scenarios hands to TestRunner.run_all_scenarios
LoadedTestScenarios(h) ==
  IF h = "authenticate" THEN PlainTestScenarios ELSE TestScenarios

ScenarioFiles(h) ==
  IF h = "runner" THEN {Scenario("A", s) : s \in SeqsUpTo(StepTypes, MaxSteps)}
  ELSE IF h = "grader" THEN {Scenario("A", << "text" >>)}
  ELSE IF h \in {"sequence", "concurrent", "batch"} THEN ShortScenarios
  ELSE {}

GraderScripts(h) ==
  IF h = "runner" THEN UniformScripts(AllReplies)
  ELSE IF h = "grader" THEN Deviate(UniformScripts(BaseReplies), MaxDeviations)
  ELSE UniformScripts({RGood})

\* SimpleTestRunner.run_scenario calls explored per behaviour
RunsAllowed(h) ==
  IF h \in {"sequence", "batch"} THEN MaxRuns
  ELSE IF h = "concurrent" THEN 2
  ELSE IF h \in {"runner", "grader"} THEN 1
  ELSE 0

\* what POST /api/v1/ai/query meets (send_text_with_auth, lines 152-165):
\*   "answer"  status 200, the body is a JSON object
\*   "bare"    status 200, the body is JSON but not an object (null, a string)
\*   "failure" another status or an exception
AssistantReplies(h) ==
  IF h = "batch" THEN {"answer", "bare", "failure"} ELSE {"answer", "failure"}

(***************************************************************************)
(* State.                                                                  *)
(***************************************************************************)
VARIABLES
  harness,               \* which configuration is explored
  lm_studio,             \* the grading backend: criterion index -> reply
  pc,                    \* position of the runner's flow of control
  runs,                  \* run_scenario calls made so far
  now,                   \* logical clock behind datetime.now()
  jwt_token,             \* SimpleTestRunner.jwt_token is set
  conversation_history,  \* SimpleTestRunner.conversation_history
  current_scenario_name, \* SimpleTestRunner._current_scenario_name
  results,               \* SimpleTestRunner.results
  scenario,              \* the scenario execute_scenario is running
  result,                \* execute_scenario's result dict
  criteria_results,      \* locals of evaluate_conversation
  total_score,
  max_possible_score,
  critical_failures,
  connection,            \* what this evaluation's GET /v1/models met
  requests,              \* requests this evaluation sent to the backend
  api_calls,             \* network calls of the step executors: to the
                         \* assistant's /api/v1/ai/query and to the semantic grader
  login,                 \* the last login call: its outcome, the requests it
                         \* sent to /api/v1/auth/login and what they met
  returns,               \* what the run_scenario calls returned, in call order
  batch,                 \* the run_all_scenarios call
  retry,                 \* the call of a function wrapped by simple_retry: its
                         \* arguments and locals, what each invocation of the
                         \* function did (outcomes), the sleeps made, and the
                         \* value returned (the number of the invocation that
                         \* produced it) or the exception raised
  suspended,             \* locals of the coroutine that is not running
  test_scenario,         \* the steps TestRunner.run_scenario iterates over
  scenario_results       \* TestRunner.run_scenario's scenario_results dict

vars == << harness, lm_studio, pc, runs, now, jwt_token, conversation_history,
           current_scenario_name, results, scenario, result, criteria_results,
           total_score, max_possible_score, critical_failures, connection,
           requests, api_calls, login, returns, batch, retry, suspended,
           test_scenario, scenario_results >>

env == << harness, lm_studio >>
evaluator == << criteria_results, total_score, max_possible_score, critical_failures >>
other == << suspended, test_scenario, scenario_results, batch, retry >>

NoScenario == Scenario("", << >>)
NoEvaluation == [present |-> FALSE]
NoRequests == [models |-> 0, criterion |-> 0, flow |-> 0]
NoCalls == [query |-> 0, grade |-> 0]
NoLogin == [outcome |-> "none", requests |-> 0, replies |-> << >>]
NoBatch == [status |-> "idle", total |-> 0, success_rate |-> FracZero, value |-> FALSE]
NoRetry ==
  [status |-> "idle", max_attempts |-> 0, delay |-> 0, backoff |-> 0,
   exceptions |-> {}, attempt |-> 0, invocations |-> 0, sleeps |-> << >>,
   last_exception |-> "None", value |-> 0, raised |-> "None",
   outcomes |-> << >>]

\* the result dict execute_scenario starts with, lines 216-223
NewResult(name) ==
  [name |-> name, steps |-> << >>, success |-> FALSE, error |-> FALSE,
   success_rate |-> FracZero, ai_evaluation |-> NoEvaluation,
   ai_evaluation_error |-> FALSE]

\* variant: the local floor is 0.6
LocalSuccessLenient(success_rate) == FracGE(success_rate, Frac(60, 100))

\* result["success"] = success_rate >= 0.7, lines 306 and 309
LocalSuccess(success_rate) == FracGE(success_rate, Frac(LocalFloorPercent, 100))

\* variant: only the raw-score floor decides
AiSuccessFloorOnly(passes_quality_gate, success_percentage) ==
  FracGE(Frac(success_percentage.num, success_percentage.den * 100),
         Frac(AiFloorPercent, 100))

\* result["success"] = passes_quality_gate and ai_success_rate >= 0.75, lines 281-285
AiSuccess(passes_quality_gate, success_percentage) ==
  /\ passes_quality_gate
  /\ FracGE(Frac(success_percentage.num, success_percentage.den * 100),
            Frac(AiFloorPercent, 100))

\* variant: the quotient is truncated to an integer
SuccessRateTruncated(steps) ==
  IF Len(steps) > 0
  THEN Frac(Cardinality({i \in 1..Len(steps) : steps[i].success}) \div Len(steps), 1)
  ELSE FracZero

\* successful_steps / total_steps if total_steps > 0 else 0, lines 237-239
SuccessRate(steps) ==
  IF Len(steps) > 0
  THEN Frac(Cardinality({i \in 1..Len(steps) : steps[i].success}), Len(steps))
  ELSE FracZero

HistoryOf(name) ==
  IF name \in DOMAIN conversation_history THEN conversation_history[name] ELSE << >>

\* the locals of the execute_scenario coroutine that is running
Locals ==
  [pc |-> pc, scenario |-> scenario, result |-> result,
   criteria_results |-> criteria_results, total_score |-> total_score,
   max_possible_score |-> max_possible_score,
   critical_failures |-> critical_failures, connection |-> connection,
   requests |-> requests]

\* the locals of a coroutine that has not been started
NotStarted ==
  [pc |-> "idle", scenario |-> NoScenario, result |-> NewResult(""),
   criteria_results |-> << >>, total_score |-> 0, max_possible_score |-> 0,
   critical_failures |-> << >>, connection |-> "unchecked",
   requests |-> NoRequests]

\* scenario_results as TestRunner.run_scenario creates it, src/runner.py lines 463-469
NewScenarioResults(name, steps) ==
  [name |-> name, total_steps |-> Len(steps), passed_steps |-> 0,
   failed_steps |-> 0, steps |-> << >>]

Constructed ==
  /\ lm_studio \in GraderScripts(harness)
  /\ pc = "idle"
  /\ runs = 0
  /\ now = 0
  /\ jwt_token = FALSE
  /\ conversation_history = << >>
  /\ current_scenario_name = "unknown"
  /\ results = << >>
  /\ scenario = NoScenario
  /\ result = NewResult("")
  /\ criteria_results = << >>
  /\ total_score = 0
  /\ max_possible_score = 0
  /\ critical_failures = << >>
  /\ connection = "unchecked"
  /\ requests = NoRequests
  /\ api_calls = NoCalls
  /\ login = NoLogin
  /\ returns = << >>
  /\ batch = NoBatch
  /\ retry = NoRetry
  /\ suspended = NotStarted
  /\ test_scenario = << >>
  /\ scenario_results = NewScenarioResults("", << >>)

Init ==
  /\ harness \in HarnessNames
  /\ Constructed

InitConcurrent ==
  /\ harness = "concurrent"
  /\ Constructed

(***************************************************************************)
(* execute_scenario returns to run_scenario, which appends the result to   *)
(* self.results (lines 329-330, 472-475); evaluate_conversation's locals   *)
(* go out of scope.                                                        *)
(***************************************************************************)
\* variant: the list is replaced by the last result
ReturnReplacing(final) ==
  /\ result' = final
  /\ results' = << final >>
  /\ returns' = Append(returns, final.success)
  /\ pc' = "idle"
  /\ criteria_results' = << >>
  /\ total_score' = 0
  /\ max_possible_score' = 0
  /\ critical_failures' = << >>

Return(final) ==
  /\ result' = final
  /\ results' = Append(results, final)
  /\ returns' = Append(returns, final.success)
  /\ pc' = "idle"
  /\ criteria_results' = << >>
  /\ total_score' = 0
  /\ max_possible_score' = 0
  /\ critical_failures' = << >>

\* except Exception around evaluate_conversation, lines 302-306
EvaluationRaised ==
  Return([result EXCEPT !.ai_evaluation_error = TRUE,
                        !.success = LocalSuccess(result.success_rate)])

\* the names of the scenarios the two coroutines were started with
StartedNames == {scenario.name, suspended.scenario.name}

(***************************************************************************)
(* run_scenario up to the call of execute_scenario (lines 445-472) and the *)
(* head of execute_scenario (lines 209-226).  Concurrent executions are    *)
(* given different scenario names.                                         *)
(***************************************************************************)
\* what POST /api/v1/auth/login meets:
\*   "token"        status 200, success and a token in the body
\*   "rejected"     status 200, no success or no token (rejected credentials)
\*   "error_status" another status
\*   "exception"    the request raises (connection refused, timeout)
LoginReplies == {"token", "rejected", "error_status", "exception"}

LoginOutcome(reply) == IF reply = "token" THEN "ok" ELSE reply

\* SimpleTestRunner.login (lines 92-127): one POST, true only for "token"
Login(reply) ==
  [outcome |-> LoginOutcome(reply), requests |-> 1, replies |-> << reply >>]

RunScenario ==
  /\ pc = "idle"
  /\ runs < RunsAllowed(harness)
  /\ harness = "batch" => batch.status = "running" /\ runs < batch.total
  /\ runs' = runs + 1
  /\ \E file \in {f \in ScenarioFiles(harness) :
                    harness = "concurrent" => f.name \notin StartedNames},
        reply \in LoginReplies,
        disk \in {"loads", "missing", "unloadable"} :
       /\ login' = Login(reply)
       /\ IF login'.outcome # "ok"
          THEN /\ returns' = Append(returns, FALSE)
               /\ UNCHANGED << pc, jwt_token, current_scenario_name, scenario,
                               result >>
          ELSE /\ jwt_token' = TRUE
               /\ IF disk # "loads"
                  THEN /\ returns' = Append(returns, FALSE)
                       /\ UNCHANGED << pc, current_scenario_name, scenario,
                                       result >>
                  ELSE /\ current_scenario_name' = file.name
                       /\ scenario' = file
                       /\ result' = NewResult(file.name)
                       /\ pc' = "steps"
                       /\ UNCHANGED returns
  /\ connection' = "unchecked"
  /\ requests' = NoRequests
  /\ UNCHANGED << env, now, conversation_history, results, evaluator,
                  api_calls, other >>

(***************************************************************************)
(* execute_step (lines 332-443) for the next declared step, and the        *)
(* append of its result (line 230).                                        *)
(***************************************************************************)
\* the step kinds whose branch sends a message and records a turn, lines 347, 388
SpokenKinds == {"send_text", "text", "audio"}

\* the step kinds execute_step has a branch for, lines 347-428
KnownKinds == SpokenKinds \cup {"generate_tts", "tts", "restart_gaja", "wait"}

\* variant: the turn records the one-based position of the step
\* send_text_with_auth (lines 129-165): the dict it returns; data is the
\* decoded body of a 200 response, whatever JSON value that is
SendTextWithAuth(token, reply) ==
  IF ~token \/ reply = "failure"
  THEN [success |-> FALSE, data |-> "absent"]
  ELSE [success |-> TRUE, data |-> IF reply = "answer" THEN "dict" ELSE "other"]

\* variant: the turn records the one-based position of the step
ConversationTurnOneBased(query, response, step_idx) ==
  [query |-> query, response |-> response, timestamp |-> now,
   step_index |-> step_idx + 1]

ConversationTurn(query, response, step_idx) ==
  [query |-> query, response |-> response, timestamp |-> now,
   step_index |-> step_idx]

StepResult(step_idx, step_type, ok) ==
  [step_index |-> step_idx, action |-> step_type, success |-> ok]

\* self.conversation_history[scenario_name].append(turn), lines 359-362
AppendTurn(history, name, turn) ==
  IF name \in DOMAIN history
  THEN [history EXCEPT ![name] = Append(@, turn)]
  ELSE history @@ (name :> << turn >>)

\* variant: the loop stops at the first failed step
StepsPendingUntilFailure(done, declared) ==
  /\ Len(done) < Len(declared)
  /\ \A k \in 1..Len(done) : done[k].success

\* variant: the loop leaves the last declared step out
StepsPendingButLast(done, declared) == Len(done) + 1 < Len(declared)

\* for i, step in enumerate(steps): the loop has a step left, lines 228-234
StepsPending(done, declared) == Len(done) < Len(declared)

ExecuteStep ==
  /\ pc = "steps"
  /\ StepsPending(result.steps, scenario.steps)
  /\ LET step_idx == Len(result.steps)
         step_type == scenario.steps[step_idx + 1]
     IN IF step_type \in SpokenKinds
        THEN \E reply \in AssistantReplies(harness) :
               LET response == SendTextWithAuth(jwt_token, reply)
                   \* result["success"] is set before the reply text is read
                   \* (lines 364-371), and stays set when that read raises
                   ok == response.success
                   query == IF step_type = "audio"
                            THEN "[AUDIO] Test audio message"
                            ELSE "Test message"
               IN /\ conversation_history' =
                       AppendTurn(conversation_history, current_scenario_name,
                                  ConversationTurn(query, response, step_idx))
                  /\ result' = [result EXCEPT !.steps =
                                  Append(@, StepResult(step_idx, step_type, ok))]
                  /\ api_calls' = [api_calls EXCEPT !.query =
                                     IF jwt_token THEN @ + 1 ELSE @]
        ELSE /\ result' = [result EXCEPT !.steps =
                             Append(@, StepResult(step_idx, step_type, TRUE))]
             /\ UNCHANGED << conversation_history, api_calls >>
  /\ now' = now + 1
  /\ UNCHANGED << env, pc, runs, jwt_token, current_scenario_name, results,
                  scenario, evaluator, connection, requests, login, returns,
                  other >>

(***************************************************************************)
(* After the last step: success_rate, then either the call of              *)
(* evaluate_conversation or the local rule (lines 236-243, 307-309).       *)
(***************************************************************************)
FinishSteps ==
  /\ pc = "steps"
  /\ ~StepsPending(result.steps, scenario.steps)
  /\ LET rated == [result EXCEPT !.success_rate = SuccessRate(result.steps)]
     IN IF HistoryOf(scenario.name) # << >>
        THEN /\ result' = rated
             /\ pc' = "connect"
             /\ UNCHANGED << results, returns, evaluator >>
        ELSE Return([rated EXCEPT !.success = LocalSuccess(rated.success_rate)])
  /\ UNCHANGED << env, runs, now, jwt_token, conversation_history,
                  current_scenario_name, scenario, connection, requests,
                  api_calls, login, other >>

(***************************************************************************)
(* evaluate_conversation, lines 90-97: the connectivity check.             *)
(* test_connection (lines 61-78) sends one GET /v1/models and is true only *)
(* for a 200 response whose catalog lists model_name.                      *)
(***************************************************************************)
ModelsOutcomes == {"listed", "not_listed", "bad_status", "exception"}

\* variant: any 200 response counts, the catalog is not searched
TestConnectionAnyCatalog(models) == models \in {"listed", "not_listed"}

TestConnection(models) == models = "listed"

Connect ==
  /\ pc = "connect"
  /\ requests' = [requests EXCEPT !.models = @ + 1]
  /\ \E models \in ModelsOutcomes :
       IF TestConnection(models)
       THEN /\ connection' = models
            /\ pc' = "criteria"
            /\ criteria_results' = << >>
            /\ total_score' = 0
            /\ max_possible_score' = 0
            /\ critical_failures' = << >>
            /\ UNCHANGED << result, results, returns >>
       ELSE /\ connection' = models
            /\ EvaluationRaised
  /\ UNCHANGED << env, runs, now, jwt_token, conversation_history,
                  current_scenario_name, scenario, api_calls, login, other >>

(***************************************************************************)
(* The conversation evaluate_conversation is handed is the runner's own    *)
(* list (simple_runner.py line 252 passes                                  *)
(* self.conversation_history[scenario_name], not a copy), so what the      *)
(* evaluator does to it is done to the history.  _build_evaluation_prompt  *)
(* (lines 216-232) and _analyze_conversation_flow (lines 445-457) iterate  *)
(* over it and read each turn with .get; they leave the list as it is.     *)
(***************************************************************************)
\* variant: the reader consumes the turns it formats
ConversationReadConsuming(conversation) ==
  IF conversation = << >> THEN conversation ELSE Tail(conversation)

ConversationRead(conversation) == conversation

\* the history after the evaluator has read the list filed under name
ReadBy(history, name) ==
  IF name \in DOMAIN history
  THEN [history EXCEPT ![name] = ConversationRead(@)]
  ELSE history

(***************************************************************************)
(* One iteration of the loop over EvaluationCriteria, lines 100-113.       *)
(***************************************************************************)
EvaluateCriterion ==
  /\ pc = "criteria"
  /\ Len(criteria_results) < NumCriteria
  /\ LET c == Len(criteria_results) + 1
         r == EvaluateSingleCriteria(lm_studio[c], EvaluationCriteria[c])
     IN /\ requests' = [requests EXCEPT !.criterion = @ + 1]
        /\ IF r.severity = JStr("critical") /\ ExtendRaises(r.issues)
           THEN EvaluationRaised
           ELSE /\ criteria_results' = Append(criteria_results, r)
                /\ total_score' = total_score + r.score
                /\ max_possible_score' = max_possible_score + r.max_score
                /\ critical_failures' =
                     IF r.severity = JStr("critical")
                     THEN critical_failures \o ExtendItems(r.issues)
                     ELSE critical_failures
                /\ UNCHANGED << pc, result, results, returns >>
  /\ conversation_history' = ReadBy(conversation_history, scenario.name)
  /\ UNCHANGED << env, runs, now, jwt_token, current_scenario_name, scenario,
                  connection, api_calls, login, other >>

(***************************************************************************)
(* After the loop: the flow analysis, the aggregation and the quality gate *)
(* (lines 115-150), then the runner's success rule (lines 257-285).        *)
(***************************************************************************)
\* _analyze_conversation_flow formats the turns before its try (lines
\* 445-457): for a response dict with a 'data' key it calls
\* resp_data['data'].get, which raises AttributeError unless data is a dict
FlowPromptRaises(conversation) ==
  \E k \in 1..Len(conversation) : conversation[k].response.data = "other"

\* the request of _analyze_conversation_flow (lines 482-502) never raises;
\* it returns the reply or an error text
AnalyzeConversationFlow(flow) ==
  IF flow = "ok" THEN "analysis"
  ELSE IF flow = "bad_status" THEN "Blad analizy: HTTP"
  ELSE "Blad analizy konwersacji"

\* variant: only the issues of critical results are collected
ConversationEvaluationCriticalOnly(analysis) ==
  LET success_percentage == SuccessPercentage(total_score, max_possible_score)
  IN [present |-> TRUE,
      total_score |-> total_score,
      max_possible_score |-> max_possible_score,
      success_percentage |-> success_percentage,
      criteria_results |-> criteria_results,
      overall_issues |-> critical_failures,
      overall_suggestions |-> ExtendAll(criteria_results, "suggestions"),
      conversation_analysis |-> analysis,
      critical_failures |-> critical_failures,
      passes_quality_gate |-> PassesQualityGate(success_percentage, critical_failures)]

\* ConversationEvaluation(...), lines 128-140
ConversationEvaluation(analysis) ==
  LET success_percentage == SuccessPercentage(total_score, max_possible_score)
  IN [present |-> TRUE,
      total_score |-> total_score,
      max_possible_score |-> max_possible_score,
      success_percentage |-> success_percentage,
      criteria_results |-> criteria_results,
      overall_issues |-> ExtendAll(criteria_results, "issues"),
      overall_suggestions |-> ExtendAll(criteria_results, "suggestions"),
      conversation_analysis |-> analysis,
      critical_failures |-> critical_failures,
      passes_quality_gate |-> PassesQualityGate(success_percentage, critical_failures)]

Aggregate ==
  /\ pc = "criteria"
  /\ Len(criteria_results) = NumCriteria
  /\ requests' = IF FlowPromptRaises(HistoryOf(scenario.name))
                 THEN requests
                 ELSE [requests EXCEPT !.flow = @ + 1]
  /\ \E flow \in {"ok", "bad_status", "exception"} :
       IF \/ FlowPromptRaises(HistoryOf(scenario.name))
          \/ ExtendAllRaises(criteria_results)
       THEN EvaluationRaised
       ELSE LET ai_evaluation == ConversationEvaluation(AnalyzeConversationFlow(flow))
            IN Return([result EXCEPT
                 !.ai_evaluation = ai_evaluation,
                 !.success = AiSuccess(ai_evaluation.passes_quality_gate,
                                       ai_evaluation.success_percentage)])
  /\ conversation_history' = ReadBy(conversation_history, scenario.name)
  /\ UNCHANGED << env, runs, now, jwt_token, current_scenario_name, scenario,
                  connection, api_calls, login, other >>

(***************************************************************************)
(* Two execute_scenario coroutines on one runner.  Every action above runs *)
(* from one suspension point (an await of execute_step, test_connection, a *)
(* criterion call or the flow analysis) to the next, so the event loop     *)
(* may hand control to the other coroutine between any two of them.  The   *)
(* locals change hands; the runner's attributes (conversation_history,     *)
(* _current_scenario_name, results, jwt_token) are shared.  In             *)
(* execute_step the attribute _current_scenario_name is read on lines 359  *)
(* and 407, after the await of send_text_with_auth.                        *)
(***************************************************************************)
Switch ==
  /\ harness = "concurrent"
  /\ pc # "idle" \/ suspended.pc # "idle"
  /\ suspended' = Locals
  /\ pc' = suspended.pc
  /\ scenario' = suspended.scenario
  /\ result' = suspended.result
  /\ criteria_results' = suspended.criteria_results
  /\ total_score' = suspended.total_score
  /\ max_possible_score' = suspended.max_possible_score
  /\ critical_failures' = suspended.critical_failures
  /\ connection' = suspended.connection
  /\ requests' = suspended.requests
  /\ UNCHANGED << env, runs, now, jwt_token, conversation_history,
                  current_scenario_name, results, api_calls, login, returns,
                  batch, retry, test_scenario, scenario_results >>

(***************************************************************************)
(* TestRunner.run_scenario (src/runner.py lines 456-484): the head, one    *)
(* iteration of the loop over the steps, and the return.                   *)
(***************************************************************************)
\* tenacity's @retry around _make_request (api_client.py lines 59-62): an
\* attempt that raises (raise_for_status on an error status, a transport
\* error) is made again until StopAfterAttempt attempts have been made
RECURSIVE MakeRequest(_, _)
MakeRequest(replies, attempt_number) ==
  IF replies[attempt_number] \in {"error_status", "exception"}
     /\ attempt_number < StopAfterAttempt
  THEN MakeRequest(replies, attempt_number + 1)
  ELSE [reply |-> replies[attempt_number], requests |-> attempt_number]

\* GajaApiClient.authenticate (api_client.py lines 102-121)
Authenticate(replies) ==
  LET response == MakeRequest(replies, 1)
  IN [outcome |-> LoginOutcome(response.reply), requests |-> response.requests,
      replies |-> SubSeq(replies, 1, response.requests)]

\* TestRunner.run up to load_scenarios (src/runner.py lines 524-545):
\* authenticate_api (lines 217-227) logs a warning when authenticate is false
\* and returns None either way
TestAuthenticate ==
  /\ harness = "authenticate"
  /\ pc = "idle"
  /\ login.outcome = "none"
  /\ \E replies \in [1..StopAfterAttempt -> LoginReplies] :
       login' = Authenticate(replies)
  /\ UNCHANGED << env, pc, runs, now, jwt_token, conversation_history,
                  current_scenario_name, results, scenario, result, evaluator,
                  connection, requests, api_calls, returns, other >>

TestRunScenario ==
  /\ harness = "testrunner" \/ (harness = "authenticate" /\ login.outcome # "none")
  /\ pc = "idle"
  /\ runs = 0
  /\ runs' = runs + 1
  /\ \E steps \in LoadedTestScenarios(harness) :
       /\ test_scenario' = steps
       /\ scenario_results' = NewScenarioResults("T", steps)
  /\ pc' = "test_steps"
  /\ UNCHANGED << env, now, jwt_token, conversation_history,
                  current_scenario_name, results, scenario, result, evaluator,
                  connection, requests, api_calls, login, returns, suspended,
                  batch, retry >>

TestExecuteStep ==
  /\ pc = "test_steps"
  /\ StepsPending(scenario_results.steps, test_scenario)
  /\ LET step == test_scenario[Len(scenario_results.steps) + 1]
     IN \E execution \in ExecuteOutcomes(step.type), grading \in Gradings,
           logged \in BOOLEAN :
          LET step_result == TestStepResult(step, execution, grading, logged)
          IN /\ scenario_results' =
                  [scenario_results EXCEPT
                     !.steps = Append(@, step_result),
                     !.passed_steps = IF step_result.success THEN @ + 1 ELSE @,
                     !.failed_steps = IF step_result.success THEN @ ELSE @ + 1]
             /\ api_calls' =
                  [api_calls EXCEPT
                     !.query = IF step.type = "text" THEN @ + 1 ELSE @,
                     !.grade = IF "assertions" \in DOMAIN step_result
                               THEN @ + SemanticCalls(step.expect.assertions)
                               ELSE @]
  /\ UNCHANGED << env, pc, runs, now, jwt_token, conversation_history,
                  current_scenario_name, results, scenario, result, evaluator,
                  connection, requests, login, returns, suspended, batch,
                  retry, test_scenario >>

TestFinishScenario ==
  /\ pc = "test_steps"
  /\ ~StepsPending(scenario_results.steps, test_scenario)
  /\ pc' = "idle"
  /\ UNCHANGED << env, runs, now, jwt_token, conversation_history,
                  current_scenario_name, results, scenario, result, evaluator,
                  connection, requests, api_calls, login, returns, other >>

(***************************************************************************)
(* SimpleTestRunner.run_all_scenarios (simple_runner.py lines 477-512).    *)
(* The loop body is run_scenario (actions RunScenario .. Aggregate); none  *)
(* of its paths raises, every exception is caught inside login,            *)
(* load_scenario, execute_step and execute_scenario.                       *)
(***************************************************************************)
\* success_count after the loop, lines 497-503
SuccessCount(returned) == Cardinality({k \in 1..Len(returned) : returned[k]})

\* variant: the floor is strict
AtLeastHalfStrict(success_rate) ==
  ~FracGE(Frac(BatchFloorPercent, 100), success_rate)

\* success_rate >= 0.5, line 512
AtLeastHalf(success_rate) == FracGE(success_rate, Frac(BatchFloorPercent, 100))

\* lines 479-495: the directory, the files found, the login
RunAllScenarios ==
  /\ harness = "batch"
  /\ batch.status = "idle"
  /\ pc = "idle"
  /\ \E found \in 0..MaxRuns, reply \in LoginReplies :
       IF found = 0
       THEN /\ batch' = [batch EXCEPT !.status = "returned", !.value = FALSE]
            /\ UNCHANGED << login, jwt_token >>
       ELSE /\ login' = Login(reply)
            /\ IF login'.outcome = "ok"
               THEN /\ jwt_token' = TRUE
                    /\ batch' = [batch EXCEPT !.status = "running",
                                              !.total = found]
               ELSE /\ batch' = [batch EXCEPT !.status = "returned",
                                              !.total = found, !.value = FALSE]
                    /\ UNCHANGED jwt_token
  /\ UNCHANGED << env, pc, runs, now, conversation_history,
                  current_scenario_name, results, scenario, result, evaluator,
                  connection, requests, api_calls, returns, suspended,
                  test_scenario, scenario_results, retry >>

\* lines 507-512, after the loop went through every file
FinishAllScenarios ==
  /\ harness = "batch"
  /\ batch.status = "running"
  /\ pc = "idle"
  /\ runs = batch.total
  /\ LET success_rate == Frac(SuccessCount(returns), batch.total)
     IN batch' = [batch EXCEPT !.status = "returned",
                               !.success_rate = success_rate,
                               !.value = AtLeastHalf(success_rate)]
  /\ UNCHANGED << env, pc, runs, now, jwt_token, conversation_history,
                  current_scenario_name, results, scenario, result, evaluator,
                  connection, requests, api_calls, login, returns, suspended,
                  test_scenario, scenario_results, retry >>

(***************************************************************************)
(* simple_retry (src/utils/timeouts.py lines 26-60): the wrapper around an *)
(* async function.  Times are in seconds.                                  *)
(***************************************************************************)
\* what one invocation of the wrapped function does: it returns, or raises
\* an exception of one of these classes
RaisedClasses == {"ConnectionError", "TimeoutError", "ValueError"}

\* the `exceptions` tuples: the default (Exception,), line 30, and
\* network_retry's (ConnectionError, TimeoutError), line 102
ExceptionTuples == {{"Exception"}, {"ConnectionError", "TimeoutError"}}

Delays == {1, 2}
Backoffs == {2, 3}

\* variant: every exception is caught
CatchesAny(exceptions, class) == TRUE

\* except exceptions as e, line 42: every class derives from Exception
Catches(exceptions, class) == "Exception" \in exceptions \/ class \in exceptions

RECURSIVE Pow(_, _)
Pow(b, k) == IF k = 0 THEN 1 ELSE b * Pow(b, k - 1)

\* variant: the wait grows linearly
WaitTimeLinear(delay, backoff, attempt) == delay * backoff * attempt

\* wait_time = delay * (backoff ** attempt), line 49
WaitTime(delay, backoff, attempt) == delay * Pow(backoff, attempt)

\* the wrapper is called, lines 35-37
SimpleRetryCall ==
  /\ harness = "retry"
  /\ retry.status = "idle"
  /\ \E max_attempts \in 0..MaxAttempts, delay \in Delays, backoff \in Backoffs,
        exceptions \in ExceptionTuples :
       retry' = [retry EXCEPT !.status = "running",
                              !.max_attempts = max_attempts,
                              !.delay = delay, !.backoff = backoff,
                              !.exceptions = exceptions]
  /\ UNCHANGED << env, pc, runs, now, jwt_token, conversation_history,
                  current_scenario_name, results, scenario, result, evaluator,
                  connection, requests, api_calls, login, returns, suspended,
                  test_scenario, scenario_results, batch >>

\* one iteration of for attempt in range(max_attempts), lines 38-52
SimpleRetryAttempt ==
  /\ retry.status = "running"
  /\ retry.attempt < retry.max_attempts
  /\ \E outcome \in {"ok"} \cup RaisedClasses :
       LET n == retry.invocations + 1
           invoked == [retry EXCEPT !.invocations = n,
                                    !.outcomes = Append(@, outcome)]
       IN IF outcome = "ok"
          THEN retry' = [invoked EXCEPT !.status = "returned", !.value = n]
          ELSE IF ~Catches(retry.exceptions, outcome)
          THEN retry' = [invoked EXCEPT !.status = "raised", !.raised = outcome]
          ELSE IF retry.attempt = retry.max_attempts - 1
          THEN retry' = [invoked EXCEPT !.status = "raised",
                                        !.last_exception = outcome,
                                        !.raised = outcome]
          ELSE retry' = [invoked EXCEPT !.last_exception = outcome,
                                      !.sleeps = Append(@,
                                         WaitTime(retry.delay, retry.backoff,
                                                  retry.attempt)),
                                      !.attempt = @ + 1]
  /\ UNCHANGED << env, pc, runs, now, jwt_token, conversation_history,
                  current_scenario_name, results, scenario, result, evaluator,
                  connection, requests, api_calls, login, returns, suspended,
                  test_scenario, scenario_results, batch >>

\* the loop ran out without returning or raising, lines 54-57
SimpleRetryExhausted ==
  /\ retry.status = "running"
  /\ retry.attempt >= retry.max_attempts
  /\ retry' = [retry EXCEPT !.status = "raised",
                            !.raised = IF retry.last_exception # "None"
                                       THEN retry.last_exception
                                       ELSE "Exception"]
  /\ UNCHANGED << env, pc, runs, now, jwt_token, conversation_history,
                  current_scenario_name, results, scenario, result, evaluator,
                  connection, requests, api_calls, login, returns, suspended,
                  test_scenario, scenario_results, batch >>

Next ==
  \/ RunScenario
  \/ ExecuteStep
  \/ FinishSteps
  \/ Connect
  \/ EvaluateCriterion
  \/ Aggregate
  \/ TestAuthenticate
  \/ TestRunScenario
  \/ TestExecuteStep
  \/ TestFinishScenario
  \/ RunAllScenarios
  \/ FinishAllScenarios
  \/ SimpleRetryCall
  \/ SimpleRetryAttempt
  \/ SimpleRetryExhausted

Spec == Init /\ [][Next]_vars

NextConcurrent ==
  \/ RunScenario
  \/ ExecuteStep
  \/ FinishSteps
  \/ Connect
  \/ EvaluateCriterion
  \/ Aggregate
  \/ Switch

SpecConcurrent == InitConcurrent /\ [][NextConcurrent]_vars

(***************************************************************************)
(* Properties.                                                             *)
(***************************************************************************)
RECURSIVE SumField(_, _)
\* sum of one numeric field over a list of criterion results
SumField(rs, field) ==
  IF rs = << >> THEN 0
  ELSE rs[Len(rs)][field] + SumField(SubSeq(rs, 1, Len(rs) - 1), field)

RECURSIVE CriticalIssues(_)
\* the issues of the results whose severity is "critical", in order
CriticalIssues(rs) ==
  IF rs = << >> THEN << >>
  ELSE CriticalIssues(SubSeq(rs, 1, Len(rs) - 1))
         \o (IF rs[Len(rs)].severity = JStr("critical")
             THEN ExtendItems(rs[Len(rs)].issues) ELSE << >>)

\* the gate the aggregation computes for a list of criterion results
GateOf(rs) ==
  PassesQualityGate(SuccessPercentage(SumField(rs, "score"), SumField(rs, "max_score")),
                    CriticalIssues(rs))

\* the Conversation Evaluations returned so far
Evaluations ==
  {results[i].ai_evaluation : i \in {j \in 1..Len(results) : results[j].ai_evaluation.present}}

\* the scenario results whose evaluation was produced / was not produced
Evaluated == {i \in 1..Len(results) : results[i].ai_evaluation.present}
NotEvaluated == {i \in 1..Len(results) : ~results[i].ai_evaluation.present}

AtThreshold(pct) == FracGE(pct, Frac(QualityGateThreshold, 1))

\* C1: a returned evaluation passes the quality gate exactly when its
\* success_percentage is at least the threshold (75) and it has no critical
\* failure; with a critical failure it never passes.
C1_GateRule ==
  \A e \in Evaluations :
     /\ e.passes_quality_gate <=>
          (AtThreshold(e.success_percentage) /\ e.critical_failures = << >>)
     /\ e.critical_failures # << >> => ~e.passes_quality_gate

\* a high percentage with a critical failure: the gate is closed
C1_Witness ==
  \E e \in Evaluations :
     /\ FracGE(e.success_percentage, Frac(90, 1))
     /\ e.critical_failures # << >>
     /\ ~e.passes_quality_gate

\* C2: success_percentage is 100 * total_score / max_possible_score when
\* max_possible_score > 0 and 0 when it is 0, the two totals being the sums
\* of score and max_score over the criterion results.
C2_PercentageFormula ==
  \A e \in Evaluations :
     /\ e.total_score = SumField(e.criteria_results, "score")
     /\ e.max_possible_score = SumField(e.criteria_results, "max_score")
     /\ e.max_possible_score > 0 =>
          e.success_percentage.num * e.max_possible_score
            = 100 * e.total_score * e.success_percentage.den
     /\ e.max_possible_score = 0 => e.success_percentage.num = 0

\* all ten criteria report max_score 0: the percentage collapses to 0
C2_Witness ==
  \E e \in Evaluations :
     /\ e.max_possible_score = 0
     /\ Len(e.criteria_results) = NumCriteria
     /\ e.success_percentage.num = 0

\* C3: success_percentage of every returned evaluation lies in [0, 100].
C3_PercentageInRange ==
  \A e \in Evaluations :
     /\ FracGE(e.success_percentage, FracZero)
     /\ FracGE(Frac(100, 1), e.success_percentage)

\* C4: every criterion result has 0 <= score <= max_score.
C4_ScoreInRange ==
  \A i \in 1..Len(criteria_results) :
     /\ 0 <= criteria_results[i].score
     /\ criteria_results[i].score <= criteria_results[i].max_score

\* scores a criterion's score may be raised to
RaisedScores == {0, 50, 75, 80, 100, 150}

RemoveAt(seq, k) == SubSeq(seq, 1, k - 1) \o SubSeq(seq, k + 1, Len(seq))

\* C5: for a fixed threshold the gate is monotonic: when a returned
\* evaluation passes, the criterion results with one score raised, or with
\* one issue of a critical result removed, pass as well.
C5_GateMonotonic ==
  \A e \in Evaluations :
     e.passes_quality_gate =>
       \A c \in 1..Len(e.criteria_results) :
          /\ \A s \in RaisedScores :
                s > e.criteria_results[c].score =>
                  GateOf([e.criteria_results EXCEPT ![c].score = s])
          /\ e.criteria_results[c].severity = JStr("critical") =>
               \A k \in 1..Len(e.criteria_results[c].issues.l) :
                  GateOf([e.criteria_results EXCEPT
                            ![c].issues = JList(RemoveAt(@.l, k))])

\* an evaluation that passes and has a criterion whose score can be raised
C5_Witness ==
  \E e \in Evaluations :
     /\ e.passes_quality_gate
     /\ \E c \in 1..Len(e.criteria_results) : e.criteria_results[c].score = 75

\* the run's evaluation is over (returned or raised)
EvaluationOver == pc = "idle" /\ connection # "unchecked"

\* C6: once the connectivity check has passed, the evaluation returns one
\* criterion result per criterion, in enumeration order, and a criterion
\* whose call or parse failed has a zero-score critical result.
C6_EveryCriterionEvaluated ==
  (EvaluationOver /\ connection = "listed") =>
     /\ result.ai_evaluation.present
     /\ Len(result.ai_evaluation.criteria_results) = NumCriteria
     /\ \A c \in 1..NumCriteria :
          LET r == result.ai_evaluation.criteria_results[c]
          IN /\ r.criteria = EvaluationCriteria[c]
             /\ lm_studio[c] \in FailingReplies =>
                  (r.score = 0 /\ r.severity = JStr("critical"))

\* some criterion's grading call or parse failed in the evaluation of this run
SomeCriterionFailed ==
  \E c \in 1..NumCriteria : lm_studio[c] \in FailingReplies

\* C7: a criterion whose grading call or parse failed gets score 0, severity
\* critical and a non-empty issue list, the evaluation does not pass the
\* gate, and the scenario's final success is false.
C7_GradingFailureFailsScenario ==
  /\ \A c \in 1..Len(criteria_results) :
        lm_studio[c] \in FailingReplies =>
          /\ criteria_results[c].score = 0
          /\ criteria_results[c].severity = JStr("critical")
          /\ criteria_results[c].issues.l # << >>
  /\ (EvaluationOver /\ connection = "listed" /\ SomeCriterionFailed) =>
        /\ ~result.success
        /\ result.ai_evaluation.present => ~result.ai_evaluation.passes_quality_gate

C9_AiSuccessRule ==
  \A i \in Evaluated :
     LET e == results[i].ai_evaluation
     IN results[i].success <=>
          /\ e.passes_quality_gate
          /\ e.success_percentage.num * 100 >= 75 * 100 * e.success_percentage.den

\* the only step failed locally (success rate 0) and the scenario succeeds
C9_Witness ==
  \E i \in Evaluated :
        /\ results[i].success
        /\ results[i].success_rate.num = 0
        /\ Len(results[i].steps) > 0

\* C10: when no evaluation was produced (empty history, or
\* evaluate_conversation raised), the scenario's success is true exactly when
\* its local success rate is at least 0.7; 2 successes out of 3 steps give
\* success_rate 2/3 and success false.
C10_LocalFallbackRule ==
  \A i \in NotEvaluated :
     LET r == results[i]
         ok == Cardinality({k \in 1..Len(r.steps) : r.steps[k].success})
     IN /\ r.success <=> (r.success_rate.num * 10 >= 7 * r.success_rate.den)
        /\ Len(r.steps) > 0 => r.success_rate.num * Len(r.steps) = ok * r.success_rate.den
        /\ (Len(r.steps) = 3 /\ ok = 2) => ~r.success

\* three steps, two local successes, the connectivity check failed
C10_Witness ==
  \E i \in NotEvaluated :
     LET r == results[i]
     IN /\ Len(r.steps) = 3
        /\ Cardinality({k \in 1..3 : r.steps[k].success}) = 2
        /\ r.ai_evaluation_error
        /\ connection \in ModelsOutcomes \ {"listed"}
        /\ ~r.success

(***************************************************************************)
(* The step loop and the conversation history.                             *)
(***************************************************************************)
RECURSIVE SpokenIndexes(_)
\* the zero-based positions of the text and audio steps in a list of kinds
SpokenIndexes(kinds) ==
  IF kinds = << >> THEN << >>
  ELSE SpokenIndexes(SubSeq(kinds, 1, Len(kinds) - 1))
         \o (IF kinds[Len(kinds)] \in SpokenKinds
             THEN << Len(kinds) - 1 >> ELSE << >>)

\* the kinds recorded in a list of step results
KindsOf(steps) == [k \in 1..Len(steps) |-> steps[k].action]

\* the step_index fields along a list of turns
StepIndexes(turns) == [k \in 1..Len(turns) |-> turns[k].step_index]

\* C11: a scenario execution that runs no text or audio step attempts no
\* Conversation Evaluation and takes its final success from the local rule
\* (success rate >= 0.7), whatever scenario executions the runner has made
\* before.
C11_NoTurnsNoEvaluation ==
  /\ SpokenIndexes(scenario.steps) = << >> =>
       /\ pc \notin {"connect", "criteria"}
       /\ requests.models = 0 /\ requests.criterion = 0 /\ requests.flow = 0
  /\ \A i \in 1..Len(results) :
       SpokenIndexes(KindsOf(results[i].steps)) = << >> =>
         /\ ~results[i].ai_evaluation.present
         /\ ~results[i].ai_evaluation_error
         /\ results[i].success <=> LocalSuccess(results[i].success_rate)

\* C12: a failed step never ends the loop: execute_scenario (and
\* TestRunner.run_scenario) executes every declared step exactly once, in the
\* declared order, and the result it returns holds one step result per
\* declared step, in the same order.
C12_EveryStepOnceInOrder ==
  /\ Len(result.steps) <= Len(scenario.steps)
  /\ \A k \in 1..Len(result.steps) :
       /\ result.steps[k].step_index = k - 1
       /\ result.steps[k].action = scenario.steps[k]
  /\ pc \in {"idle", "connect", "criteria"} =>
       Len(result.steps) = Len(scenario.steps)
  /\ (pc = "idle" /\ results # << >>) => results[Len(results)] = result
  /\ Len(scenario_results.steps) <= Len(test_scenario)
  /\ \A k \in 1..Len(scenario_results.steps) :
       scenario_results.steps[k].input =
         IF test_scenario[k].type \in {"text", "audio", "action"}
         THEN [type |-> test_scenario[k].type] ELSE << >>
  /\ scenario_results.passed_steps + scenario_results.failed_steps
       = Len(scenario_results.steps)
  /\ pc = "idle" =>
       /\ Len(scenario_results.steps) = Len(test_scenario)
       /\ scenario_results.total_steps = Len(test_scenario)

\* a returned result whose first step failed and which has the later steps too
C12_Witness ==
  /\ pc = "idle"
  /\ results # << >>
  /\ Len(result.steps) >= 3
  /\ ~result.steps[1].success
  /\ result.steps[3].success

\* C13: executing a step of kind "text" or "audio" appends exactly one turn
\* (query, response, timestamp, step_index) to the list filed under the active
\* scenario's name, whether the send succeeded or failed; executing a step of
\* any other kind leaves the history map unchanged.
C13_StepHistoryEffect ==
  [][ (pc = "steps" /\ result'.steps # result.steps) =>
        LET step_idx == Len(result.steps)
            step_type == scenario.steps[step_idx + 1]
            step_result == result'.steps[step_idx + 1]
            name == scenario.name
        IN IF step_type \in {"text", "audio"}
           THEN /\ DOMAIN conversation_history'
                     = DOMAIN conversation_history \cup {name}
                /\ \A n \in DOMAIN conversation_history \ {name} :
                     conversation_history'[n] = conversation_history[n]
                /\ Len(conversation_history'[name]) = Len(HistoryOf(name)) + 1
                /\ SubSeq(conversation_history'[name], 1, Len(HistoryOf(name)))
                     = HistoryOf(name)
                /\ LET turn == conversation_history'[name][Len(HistoryOf(name)) + 1]
                   IN /\ DOMAIN turn = {"query", "response", "timestamp", "step_index"}
                      /\ turn.step_index = step_idx
                      /\ turn.timestamp = now
                      /\ turn.response.success = step_result.success
           ELSE conversation_history' = conversation_history ]_vars

\* a failed audio send has left its turn, and the wait step after it none
C13_Witness ==
  /\ pc = "steps"
  /\ Len(result.steps) = 2
  /\ result.steps[1].action = "audio"
  /\ ~result.steps[1].success
  /\ result.steps[2].action = "wait"
  /\ Len(HistoryOf(scenario.name)) = 1
  /\ ~HistoryOf(scenario.name)[1].response.success

IsPrefix(s, t) == Len(s) <= Len(t) /\ SubSeq(t, 1, Len(s)) = s

StrictlyIncreasing(ns) == \A i, j \in 1..Len(ns) : i < j => ns[i] < ns[j]

\* C14: the history is append-only and order-preserving: every operation
\* leaves the turns already in a scenario's list as an unchanged prefix of
\* that list, and along each list step_index is strictly increasing.
C14_AppendOnlyOrdered ==
  [][ /\ \A n \in DOMAIN conversation_history :
           /\ n \in DOMAIN conversation_history'
           /\ IsPrefix(conversation_history[n], conversation_history'[n])
      /\ \A n \in DOMAIN conversation_history' :
           StrictlyIncreasing(StepIndexes(conversation_history'[n])) ]_vars

\* the last n elements of a list
LastOf(s, n) == SubSeq(s, Len(s) - n + 1, Len(s))

\* C15: evaluate_conversation is invoked only after all declared steps of
\* the scenario have run, and the conversation it is handed holds the turn of
\* every text or audio step of that scenario, the last step's included.
C15_EvaluationAfterAllSteps ==
  (pc \in {"connect", "criteria"}
     \/ requests.models + requests.criterion + requests.flow > 0) =>
    LET spoken == SpokenIndexes(scenario.steps)
        conversation == HistoryOf(scenario.name)
    IN /\ Len(result.steps) = Len(scenario.steps)
       /\ Len(conversation) >= Len(spoken)
       /\ StepIndexes(LastOf(conversation, Len(spoken))) = spoken

\* the evaluation is under way and the last declared step's turn is there
C15_Witness ==
  /\ pc = "criteria"
  /\ Len(scenario.steps) >= 2
  /\ scenario.steps[Len(scenario.steps)] = "text"
  /\ LET conversation == HistoryOf(scenario.name)
     IN /\ conversation # << >>
        /\ conversation[Len(conversation)].step_index = Len(scenario.steps) - 1

\* C16: the history map is changed only by the step executor's append for a
\* text or audio step; evaluate_conversation, the per-criterion evaluation,
\* the flow analysis and the success rule leave it unchanged.
C16_OnlyStepsWriteHistory ==
  [][ conversation_history' # conversation_history =>
        /\ pc = "steps"
        /\ pc' = "steps"
        /\ Len(result'.steps) = Len(result.steps) + 1
        /\ result'.steps[Len(result'.steps)].action \in SpokenKinds ]_vars

\* a whole evaluation has run over a recorded conversation
C16_Witness ==
  \E i \in 1..Len(results) :
     /\ results[i].ai_evaluation.present
     /\ HistoryOf(results[i].name) # << >>
     /\ pc = "idle"

\* the results the two coroutines hold or have returned
HeldResults ==
  {result, suspended.result} \cup {results[i] : i \in 1..Len(results)}

\* C17: when two scenarios with different names are executed concurrently
\* on one runner, every turn is filed under the name of the scenario whose
\* step produced it: the list under a name holds the turns of that
\* scenario's text and audio steps and no others.
C17_TurnsUnderOwnName ==
  \A r \in HeldResults :
     r.name # "" =>
       StepIndexes(HistoryOf(r.name)) = SpokenIndexes(KindsOf(r.steps))

\* C18: a step whose kind is not a known kind is an automatic success:
\* execute_step returns success = true, records the kind in the result's
\* action field and sends no request (SimpleTestRunner.execute_step and
\* TestRunner.execute_step).
C18_UnknownKindSucceeds ==
  [][ /\ (/\ pc = "steps"
          /\ result'.steps # result.steps
          /\ scenario.steps[Len(result.steps) + 1] \notin KnownKinds) =>
            LET step_result == result'.steps[Len(result'.steps)]
            IN /\ step_result.success
               /\ step_result.action = scenario.steps[Len(result.steps) + 1]
               /\ requests' = requests
               /\ api_calls' = api_calls
      /\ (/\ pc = "test_steps"
          /\ scenario_results'.steps # scenario_results.steps
          /\ test_scenario[Len(scenario_results.steps) + 1].type
               \notin {"text", "audio", "action"}) =>
            LET step_result == scenario_results'.steps[Len(scenario_results'.steps)]
            IN /\ step_result.success
               /\ requests' = requests
               /\ api_calls' = api_calls ]_vars

\* a detail with some text in it
NonEmpty(detail) == \E j \in 1..Len(detail) : detail[j] # ""

\* C19: verify_assertions returns, for every assertion of kind jsonpath_eq
\* and of any unrecognised kind, passed = false with a non-empty detail; an
\* assertion whose check raises gets passed = false, and the assertions after
\* it are still checked.
C19_AssertionFailuresReported ==
  \A k \in 1..Len(scenario_results.steps) :
     LET step_result == scenario_results.steps[k]
         declared == test_scenario[k].expect.assertions
     IN "assertions" \in DOMAIN step_result =>
          /\ Len(step_result.assertions) = Len(declared)
          /\ \A i \in 1..Len(declared) :
               LET checked == step_result.assertions[i]
               IN /\ checked.kind = declared[i].kind
                  /\ declared[i].kind \notin {"contains", "semantic_ok", "effect_ok"} =>
                       ~checked.passed /\ NonEmpty(checked.detail)
                  /\ (/\ declared[i].kind = "contains"
                      /\ ContainsRaises(Get(declared[i], "value", JNull),
                                        Get(step_result.output, "text", JStr(<< >>)))) =>
                       ~checked.passed
                  /\ checked.detail[1] \in {"Assertion error: ", "Evaluation error: "} =>
                       ~checked.passed

\* the first assertion's check raised and the second one was checked and passed
C19_Witness ==
  \E k \in 1..Len(scenario_results.steps) :
     LET step_result == scenario_results.steps[k]
     IN /\ "assertions" \in DOMAIN step_result
        /\ Len(step_result.assertions) = 2
        /\ step_result.assertions[1].detail[1] = "Assertion error: "
        /\ ~step_result.assertions[1].passed
        /\ step_result.assertions[2].passed

\* C20: a step's success is the conjunction of the passed flags of all its
\* assertions, true when the step has no assertions and its execution did not
\* raise; a step whose execution raised has success = false.
C20_StepSuccessIsConjunction ==
  \A k \in 1..Len(scenario_results.steps) :
     LET step_result == scenario_results.steps[k]
     IN IF "error" \in DOMAIN step_result
        THEN ~step_result.success
        ELSE /\ step_result.success <=>
                  \A i \in 1..Len(step_result.assertions) :
                     step_result.assertions[i].passed
             /\ test_scenario[k].expect.assertions = << >> => step_result.success

\* a step without assertions whose execution did not raise has succeeded
C20_Witness ==
  \E k \in 1..Len(scenario_results.steps) :
     LET step_result == scenario_results.steps[k]
     IN /\ "error" \notin DOMAIN step_result
        /\ test_scenario[k].expect.assertions = << >>
        /\ step_result.success

(***************************************************************************)
(* Authentication and retries.                                             *)
(***************************************************************************)
FailedLogin(l) == l.outcome \notin {"none", "ok"}

\* C21: authentication failure is fatal for the whole scenario: when
\* authentication fails, no step of the scenario is executed and the
\* conversation history is left unchanged (SimpleTestRunner.run_scenario and
\* TestRunner.run).
C21_AuthenticationFailureFatal ==
  [][FailedLogin(login') =>
       /\ pc' \notin {"steps", "connect", "criteria"}
       /\ result'.steps = result.steps
       /\ scenario_results'.steps = scenario_results.steps
       /\ conversation_history' = conversation_history]_vars

\* C22: an authentication failure is not retried: a login request that meets
\* rejected credentials or an error status is the last request of the login
\* call, so the failure is reported after exactly one request.
C22_FailedLoginNotRetried ==
  \A k \in 1..Len(login.replies) :
     login.replies[k] \in {"rejected", "error_status"} =>
       /\ k = login.requests
       /\ FailedLogin(login)

\* C23: simple_retry invokes the wrapped call at most max_attempts times,
\* sleeps delay * backoff^k after the k-th failed attempt (k counted from 0,
\* no sleep after the last attempt) and after the last failed attempt raises
\* the last exception to the caller; GajaApiClient._make_request stops after
\* 3 attempts.
C23_BoundedRetryWithBackoff ==
  /\ retry.invocations <= retry.max_attempts
  /\ \A k \in 1..Len(retry.sleeps) :
        retry.sleeps[k] = retry.delay * Pow(retry.backoff, k - 1)
  /\ retry.status = "running" => Len(retry.sleeps) = retry.invocations
  /\ retry.status \in {"returned", "raised"} /\ retry.invocations > 0 =>
        Len(retry.sleeps) = retry.invocations - 1
  /\ retry.status = "raised" /\ retry.invocations > 0 =>
        retry.raised = retry.outcomes[retry.invocations]
  /\ retry.status = "running" /\ retry.invocations > 0 =>
        retry.invocations < retry.max_attempts
  /\ harness = "authenticate" => login.requests <= 3

\* three attempts failed with a listed exception: two sleeps, the second
\* backoff times the first, and the third exception reaches the caller
C23_Witness ==
  /\ retry.status = "raised"
  /\ retry.max_attempts = 3
  /\ retry.invocations = 3
  /\ retry.backoff = 3
  /\ retry.sleeps = << retry.delay, retry.delay * 3 >>
  /\ retry.outcomes = << "ConnectionError", "ConnectionError", "TimeoutError" >>
  /\ retry.raised = "TimeoutError"

\* C24: a transport error (connection refused, timeout, non-2xx) on a
\* criterion grading call is retried with backoff, and only after the
\* attempts are used up is it surfaced as a critical-severity criterion
\* failure: a criterion whose first request met a transport error has been
\* sent more than one request by the time its failure is recorded.
C24_TransportErrorRetried ==
  pc = "criteria" =>
    \A c \in 1..Len(criteria_results) :
       (lm_studio[c] = ConnectionError \/ lm_studio[c] = RHttp500) =>
          requests.criterion > Len(criteria_results)

(***************************************************************************)
(* Scenario results, the aggregated evaluation, the batch.                 *)
(***************************************************************************)
Successes(steps) == Cardinality({k \in 1..Len(steps) : steps[k].success})

\* C25: for every scenario result, success_rate equals (number of step
\* results with success = true) / (number of step results), lies in [0, 1],
\* and is 0 when the scenario has no steps.
C25_SuccessRateIsRatio ==
  \A k \in 1..Len(results) :
     LET rate == results[k].success_rate
         steps == results[k].steps
     IN /\ rate.den > 0
        /\ 0 <= rate.num /\ rate.num <= rate.den
        /\ rate.num * Len(steps) = Successes(steps) * rate.den
        /\ Len(steps) = 0 => rate.num = 0

\* a result of three steps, two of them successful: the rate is 2/3
C25_Witness ==
  \E k \in 1..Len(results) :
     /\ Len(results[k].steps) = 3
     /\ Successes(results[k].steps) = 2
     /\ results[k].success_rate.num * 3 = 2 * results[k].success_rate.den

RECURSIVE ConcatFrom(_, _, _)
\* the lists rs[k][field], rs[k+1][field], .. one after the other
ConcatFrom(rs, field, k) ==
  IF k > Len(rs) THEN << >> ELSE rs[k][field].l \o ConcatFrom(rs, field, k + 1)

\* C26: critical_failures is exactly the concatenation, in criterion order, of
\* the issue lists of the criterion results whose severity is "critical";
\* overall_issues and overall_suggestions are the concatenations of all
\* criteria's issues and suggestions, duplicates kept.
C26_IssuesAreConcatenations ==
  \A e \in Evaluations :
     /\ e.critical_failures = CriticalIssues(e.criteria_results)
     /\ e.overall_issues = ConcatFrom(e.criteria_results, "issues", 1)
     /\ e.overall_suggestions = ConcatFrom(e.criteria_results, "suggestions", 1)

\* one critical result among nine that report the same minor issue
C26_Witness ==
  \E e \in Evaluations :
     /\ Len(e.critical_failures) = 1
     /\ Len(e.overall_issues) = NumCriteria
     /\ \E i, j \in 1..NumCriteria :
          i # j /\ e.overall_issues[i] = e.overall_issues[j]
     /\ \E i \in 1..NumCriteria : e.overall_issues[i] \notin
          {e.critical_failures[k] : k \in 1..Len(e.critical_failures)}
     /\ Len(e.overall_suggestions) = NumCriteria - 1

\* C27: run_all_scenarios returns true exactly when (scenarios whose run
\* returned success) / (scenario files found) >= 0.5, and a failure in one
\* scenario's run is recorded as a non-success and never prevents the
\* remaining scenarios from running: once a scenario has been run, the call
\* returns only after every file found has been run.
C27_BatchVerdict ==
  batch.status = "returned" =>
    LET succeeded == Cardinality({k \in 1..Len(returns) : returns[k]})
    IN /\ batch.value <=> (batch.total > 0 /\ 2 * succeeded >= batch.total)
       /\ Len(returns) > 0 => Len(returns) = batch.total
       /\ Len(returns) = runs

\* two files: the first run fails, the second is still run and succeeds, and
\* one success out of two makes the call return true
C27_Witness ==
  /\ batch.status = "returned"
  /\ batch.total = 2
  /\ returns = << FALSE, TRUE >>
  /\ batch.value

\* C28: the flow analysis is advisory only: neither its reply nor its failure
\* changes total_score, max_possible_score, success_percentage,
\* critical_failures or passes_quality_gate, and a failure of the flow
\* analysis never prevents evaluate_conversation from returning the
\* evaluation: when the ten criterion results are in and their issue lists
\* can be collected, the evaluation is returned with the values the criterion
\* results determine.
C28_FlowAnalysisAdvisory ==
  [][(/\ pc = "criteria"
      /\ Len(criteria_results) = NumCriteria
      /\ ~ExtendAllRaises(criteria_results)
      /\ pc' = "idle")
     => LET e == result'.ai_evaluation
        IN /\ e.present
           /\ e.total_score = SumField(criteria_results, "score")
           /\ e.max_possible_score = SumField(criteria_results, "max_score")
           /\ e.success_percentage =
                SuccessPercentage(e.total_score, e.max_possible_score)
           /\ e.critical_failures = CriticalIssues(criteria_results)
           /\ e.passes_quality_gate = GateOf(criteria_results)]_vars

\* C29: simple_retry stops at the first success and retries only the listed
\* exception classes: when the n-th invocation (n <= max_attempts) is the
\* first to succeed, the wrapped call is invoked exactly n times and its
\* result is returned; an exception whose class is not listed propagates to
\* the caller from the invocation that raised it, which is the only
\* invocation when it is the first, with no sleep after it.
Listed(class) == "Exception" \in retry.exceptions \/ class \in retry.exceptions

C30_ResultsAppendOnly ==
  [][/\ IsPrefix(results, results')
     /\ Len(results') <= Len(results) + 1
     /\ results' # results =>
          /\ results' = Append(results, result')
          /\ returns' = Append(returns, result'.success)
     /\ (returns' # returns /\ results' = results) =>
          /\ returns' = Append(returns, FALSE)
          /\ runs' = runs + 1
          /\ pc' = "idle"
     /\ (runs' = runs + 1 /\ harness \notin {"testrunner", "authenticate"}) =>
          IF pc' = "steps"
          THEN login'.outcome = "ok" /\ returns' = returns /\ results' = results
          ELSE returns' = Append(returns, FALSE) /\ results' = results
     /\ (runs' = runs + 1 /\ FailedLogin(login')
         /\ harness \notin {"testrunner", "authenticate"}) => pc' = "idle"]_vars

\* a first call that returned false and left results empty, then a call that
\* appended its result and returned its success flag
C30_Witness ==
  /\ returns = << FALSE, TRUE >>
  /\ Len(results) = 1
  /\ results[1].success
  /\ pc = "idle"
====
